---- MODULE Spec2Model ----
(***************************************************************************)
(* A model of lib/zenhub.js, the ZenHub API client.                        *)
(*                                                                         *)
(* Strings whose characters matter (URLs, tokens, query strings) are       *)
(* sequences of one-character strings.  Values of the response body are    *)
(* tagged records, so that JavaScript's undefined, null, strings, objects  *)
(* and Error objects stay distinct.                                        *)
(***************************************************************************)
EXTENDS Integers, Sequences, FiniteSets, TLC

VARIABLES
    credentials,  \* client -> this.credentials, or NoInstance before `new ZenHub`
    tokenArg,     \* client -> the token the constructor was called with (history)
    calls,        \* the public-method calls made so far, with the invocations of
                  \* the caller's callback
    requests      \* the outbound HTTP requests handed to the transport

vars == <<credentials, tokenArg, calls, requests>>

\* The most public-method calls a behaviour of Spec makes.
MaxCalls == 2

----------------------------------------------------------------------------
\* JavaScript values

Undefined == [type |-> "undefined"]
Null == [type |-> "null"]
Str(s) == [type |-> "string", val |-> s]
Arr(xs) == [type |-> "array", items |-> xs]
Obj(fs) == [type |-> "object", fields |-> fs]
NoFields == [f \in {} |-> Undefined]
EmptyObject == Obj(NoFields)

\* An Error object.  origin tells the object the transport raised from one
\* made by `new Error(...)`: two Error objects are never the same object.
TransportError(msg) == [type |-> "error", origin |-> "transport", message |-> msg]

RECURSIVE Join(_)
\* Array.prototype.join of an array of strings, with the separator ","
Join(items) ==
    IF items = <<>> THEN ""
    ELSE IF Len(items) = 1 THEN items[1]
    ELSE items[1] \o "," \o Join(Tail(items))

\* The outcome of an evaluation that may throw
Thrown == [threw |-> TRUE]
Returned(v) == [threw |-> FALSE, value |-> v]

\* ToString.  An object is converted by its toString method: the inherited
\* one gives "[object Object]"; an own toString property of a decoded JSON
\* object is never callable, and neither it nor valueOf then gives a
\* primitive: the conversion throws a TypeError.
JsToString(v) ==
    CASE v.type = "string" -> Returned(v.val)
      [] v.type = "undefined" -> Returned("undefined")
      [] v.type = "null" -> Returned("null")
      [] v.type = "array" -> Returned(Join(v.items))
      [] v.type = "error" ->
            Returned(IF v.message = "" THEN "Error" ELSE "Error: " \o v.message)
      [] v.type = "object" ->
            IF "toString" \in DOMAIN v.fields THEN Thrown
            ELSE Returned("[object Object]")

\* new Error(message): message undefined leaves the message empty, any other
\* value is converted to a string; no Error is made when that throws.
NewError(message) ==
    LET str == IF message.type = "undefined" THEN Returned("") ELSE JsToString(message)
    IN  IF str.threw THEN Thrown
        ELSE Returned([type |-> "error", origin |-> "new Error", message |-> str.value])

\* ToBoolean
Truthy(v) ==
    CASE v.type = "undefined" -> FALSE
      [] v.type = "null" -> FALSE
      [] v.type = "string" -> v.val # ""
      [] OTHER -> TRUE

\* a || b
OrElse(a, b) == IF Truthy(a) THEN a ELSE b

\* Property access v.name throws a TypeError on undefined and null.
Throws(v) == v.type \in {"undefined", "null"}

\* v.name, for v on which property access does not throw
Get(v, name) ==
    IF v.type = "object" /\ name \in DOMAIN v.fields THEN v.fields[name]
    ELSE Undefined

----------------------------------------------------------------------------
\* Strings as character sequences

API_URL == <<"h","t","t","p","s",":","/","/","a","p","i",".","z","e","n","h","u","b",".","i","o","/","p","1">>

Digits == <<"0","1","2","3","4","5","6","7","8","9">>

RECURSIVE NumberToString(_)
\* String concatenation with an integer: its sign and its decimal digits.
NumberToString(n) ==
    IF n < 0 THEN <<"-">> \o NumberToString(0 - n)
    ELSE IF n < 10 THEN <<Digits[n + 1]>>
    ELSE NumberToString(n \div 10) \o <<Digits[(n % 10) + 1]>>

\* The characters querystring.escape leaves as they are
Unreserved ==
    { "a","b","c","d","e","f","g","h","i","j","k","l","m",
      "n","o","p","q","r","s","t","u","v","w","x","y","z",
      "A","B","C","D","E","F","G","H","I","J","K","L","M",
      "N","O","P","Q","R","S","T","U","V","W","X","Y","Z",
      "0","1","2","3","4","5","6","7","8","9",
      "-", "_", ".", "!", "~", "*", "'", "(", ")" }

\* querystring.escape: the characters that are neither letters, digits nor
\* one of - _ . ! ~ * ' ( ) are percent-encoded.  Defined on the printable
\* ASCII characters a string of this module can hold (all but the backquote).
EscapeChar(c) ==
    CASE c \in Unreserved -> <<c>>
      [] c = " " -> <<"%","2","0">>
      [] c = "\"" -> <<"%","2","2">>
      [] c = "#" -> <<"%","2","3">>
      [] c = "$" -> <<"%","2","4">>
      [] c = "%" -> <<"%","2","5">>
      [] c = "&" -> <<"%","2","6">>
      [] c = "+" -> <<"%","2","B">>
      [] c = "," -> <<"%","2","C">>
      [] c = "/" -> <<"%","2","F">>
      [] c = ":" -> <<"%","3","A">>
      [] c = ";" -> <<"%","3","B">>
      [] c = "<" -> <<"%","3","C">>
      [] c = "=" -> <<"%","3","D">>
      [] c = ">" -> <<"%","3","E">>
      [] c = "?" -> <<"%","3","F">>
      [] c = "@" -> <<"%","4","0">>
      [] c = "[" -> <<"%","5","B">>
      [] c = "\\" -> <<"%","5","C">>
      [] c = "]" -> <<"%","5","D">>
      [] c = "^" -> <<"%","5","E">>
      [] c = "{" -> <<"%","7","B">>
      [] c = "|" -> <<"%","7","C">>
      [] c = "}" -> <<"%","7","D">>

\* Mutant of escape: the characters are left as they are.
escape_none(s) == s

RECURSIVE escape(_)
escape(s) == IF s = <<>> THEN <<>> ELSE EscapeChar(Head(s)) \o escape(Tail(s))

\* An object of string properties, in insertion order: a sequence of
\* [key, value] pairs with distinct keys.
Keys(o) == {o[i].key : i \in 1..Len(o)}

Lookup(o, k) == (CHOOSE i \in 1..Len(o) : o[i].key = k)

DigitValue(c) == (CHOOSE i \in 1..10 : Digits[i] = c) - 1

RECURSIVE DigitsLess(_, _)
\* a < b, for digit strings of one length
DigitsLess(a, b) ==
    IF a = <<>> THEN FALSE
    ELSE IF Head(a) # Head(b) THEN DigitValue(Head(a)) < DigitValue(Head(b))
    ELSE DigitsLess(Tail(a), Tail(b))

\* a < b, for digit strings without leading zeros
IndexLess(a, b) == Len(a) < Len(b) \/ (Len(a) = Len(b) /\ DigitsLess(a, b))

\* An array index: the canonical decimal string of an integer below 2^32 - 1
IsIndexKey(k) ==
    /\ Len(k) >= 1
    /\ \A i \in 1..Len(k) : \E d \in 1..10 : Digits[d] = k[i]
    /\ (Len(k) = 1 \/ k[1] # "0")
    /\ IndexLess(k, <<"4","2","9","4","9","6","7","2","9","5">>)

RECURSIVE SortByIndex(_)
SortByIndex(o) ==
    IF o = <<>> THEN <<>>
    ELSE LET m == CHOOSE i \in 1..Len(o) :
                      \A j \in 1..Len(o) : j # i => IndexLess(o[i].key, o[j].key)
         IN  <<o[m]>> \o SortByIndex(SubSeq(o, 1, m - 1) \o SubSeq(o, m + 1, Len(o)))

\* The order in which the properties of an object are enumerated (for..in,
\* Object.keys): the array indices in ascending order, then the other keys in
\* insertion order.
Enumerate(o) ==
    SortByIndex(SelectSeq(o, LAMBDA p : IsIndexKey(p.key)))
    \o SelectSeq(o, LAMBDA p : ~IsIndexKey(p.key))

\* xtend(a, b): a new object with the properties of a, then those of b; a
\* property of b replaces the one of a.  Neither argument is changed.  The
\* assignment target["__proto__"] = value goes to the prototype setter of the
\* new object and makes no property.
extend(a, b) ==
    LET assigned == [i \in 1..Len(a) |->
                        IF a[i].key \in Keys(b) THEN b[Lookup(b, a[i].key)] ELSE a[i]]
                    \o SelectSeq(b, LAMBDA p : p.key \notin Keys(a))
    IN  Enumerate(SelectSeq(assigned, LAMBDA p : p.key # <<"_","_","p","r","o","t","o","_","_">>))

RECURSIVE StringifyPairs(_)
\* key=value of each pair, escaped and joined by &
StringifyPairs(o) ==
    IF o = <<>> THEN <<>>
    ELSE escape(o[1].key) \o <<"=">> \o escape(o[1].value)
         \o (IF Len(o) > 1 THEN <<"&">> \o StringifyPairs(Tail(o)) ELSE <<>>)

\* querystring.stringify of an object of string properties
stringify(o) == StringifyPairs(Enumerate(o))

----------------------------------------------------------------------------
\* The constructor

NoInstance == <<>>

\* Mutant of ZenHub: the token is not kept.
ZenHub_noToken(token) == << [key |-> <<"a","c","c","e","s","s","_","t","o","k","e","n">>, value |-> <<>>] >>

\* this.credentials = {'access_token': token}
ZenHub(token) == << [key |-> <<"a","c","c","e","s","s","_","t","o","k","e","n">>, value |-> token] >>

----------------------------------------------------------------------------
\* The request helpers.  Each returns the requests it hands to the transport
\* for call k of a client whose credentials are cred.

HttpRequest(verb, url, body, k) ==
    [verb |-> verb, url |-> url, strictSSL |-> TRUE, json |-> TRUE,
     body |-> body, call |-> k, state |-> "inflight",
     error |-> Undefined, response |-> Undefined]

\* Mutant of _get: the request is issued a second time.
_get_twice(cred, url, parameters, k) ==
    LET getURL == API_URL \o <<"/">> \o url \o <<"?">> \o stringify(extend(parameters, cred))
    IN  << HttpRequest("GET", getURL, Undefined, k), HttpRequest("GET", getURL, Undefined, k) >>

_get(cred, url, parameters, k) ==
    LET params == extend(parameters, cred)
        getURL == API_URL \o <<"/">> \o url \o <<"?">> \o stringify(params)
    IN  << HttpRequest("GET", getURL, Undefined, k) >>

_post(cred, url, parameters, body, k) ==
    LET params == extend(parameters, cred)
        postURL == API_URL \o <<"/">> \o url \o <<"?">> \o stringify(params)
    IN  << HttpRequest("POST", postURL, body, k) >>

_put(cred, url, parameters, body, k) ==
    LET params == extend(parameters, cred)
        putURL == API_URL \o <<"/">> \o url \o <<"?">> \o stringify(params)
    IN  << HttpRequest("PUT", putURL, body, k) >>

\* The completion functions the helpers give to the transport.  Each returns
\* whether it threw and the invocations it made of the callback it was given.
Invoke(error, result) == [threw |-> FALSE, args |-> << [error |-> error, result |-> result] >>]
TypeError == [threw |-> TRUE, args |-> << >>]

\* Mutant of _getCallback: the status is looked at whatever the transport's error.
_getCallback_noErrorGuard(error, body) ==
    IF Throws(body) THEN TypeError
    ELSE LET synth == Truthy(Get(body, "status")) /\ Get(body, "status") # Str("OK")
             made == NewError(OrElse(Get(body, "description"), Get(body, "error_message")))
         IN  IF synth /\ made.threw THEN TypeError
             ELSE Invoke(IF synth THEN made.value ELSE error, OrElse(body, EmptyObject))

\* Mutant of _getCallback: error_message is preferred to description.
_getCallback_messageOrder(error, body) ==
    IF ~Truthy(error) /\ Throws(body) THEN TypeError
    ELSE LET synth == /\ ~Truthy(error)
                      /\ Truthy(Get(body, "status"))
                      /\ Get(body, "status") # Str("OK")
             made == NewError(OrElse(Get(body, "error_message"), Get(body, "description")))
         IN  IF synth /\ made.threw THEN TypeError
             ELSE Invoke(IF synth THEN made.value ELSE error, OrElse(body, EmptyObject))

_getCallback(error, body) ==
    IF ~Truthy(error) /\ Throws(body) THEN TypeError
    ELSE LET synth == /\ ~Truthy(error)
                      /\ Truthy(Get(body, "status"))
                      /\ Get(body, "status") # Str("OK")
             made == NewError(OrElse(Get(body, "description"), Get(body, "error_message")))
         IN  IF synth /\ made.threw THEN TypeError
             ELSE Invoke(IF synth THEN made.value ELSE error, OrElse(body, EmptyObject))

_postCallback(error, body) == Invoke(error, OrElse(body, EmptyObject))

\* Mutant of _putCallback: the status is checked as for GET.
_putCallback_checksStatus(error, body) ==
    LET synth == /\ ~Truthy(error) /\ ~Throws(body)
                 /\ Truthy(Get(body, "status"))
                 /\ Get(body, "status") # Str("OK")
        made == NewError(Get(body, "description"))
    IN  IF synth /\ made.threw THEN TypeError
        ELSE Invoke(IF synth THEN made.value ELSE error, OrElse(body, EmptyObject))

_putCallback(error, body) == Invoke(error, OrElse(body, EmptyObject))

\* Mutant of CallbackOf: the callback is kept in one place shared by the calls,
\* which holds the one of the latest call.
CallbackOf_latest(reqs, r) == reqs[Len(reqs)].call

\* The callback of the request r that completes: the function the helper's
\* completion closure captured when call requests[r].call was made.
CallbackOf(reqs, r) == reqs[r].call

----------------------------------------------------------------------------
\* The endpoint methods: the path each asks for, and the function each gives
\* to its helper, as the arguments it passes to the caller's callback.

getBoardPath(repoId) == <<"r","e","p","o","s","i","t","o","r","i","e","s","/">> \o NumberToString(repoId) \o <<"/","b","o","a","r","d">>
\* Mutant of getBoardCallback: the whole body is passed on.
getBoardCallback_wholeBody(error, body) == [error |-> error, result |-> body]
getBoardCallback(error, body) == [error |-> error, result |-> Get(body, "pipelines")]

getIssuePath(repoId, issueNumber) ==
    <<"r","e","p","o","s","i","t","o","r","i","e","s","/">> \o NumberToString(repoId) \o <<"/","i","s","s","u","e","s","/">> \o NumberToString(issueNumber)
getIssueCallback(error, body) == [error |-> error, result |-> body]

\* Mutant of getIssueEventsPath: the path of getIssue.
getIssueEventsPath_noSuffix(repoId, issueNumber) ==
    <<"r","e","p","o","s","i","t","o","r","i","e","s","/">> \o NumberToString(repoId) \o <<"/","i","s","s","u","e","s","/">> \o NumberToString(issueNumber)

getIssueEventsPath(repoId, issueNumber) ==
    <<"r","e","p","o","s","i","t","o","r","i","e","s","/">> \o NumberToString(repoId) \o <<"/","i","s","s","u","e","s","/">> \o NumberToString(issueNumber)
    \o <<"/","e","v","e","n","t","s">>
getIssueEventsCallback(error, body) == [error |-> error, result |-> body]

getEpicsPath(repoId) == <<"r","e","p","o","s","i","t","o","r","i","e","s","/">> \o NumberToString(repoId) \o <<"/","e","p","i","c","s">>
getEpicsCallback(error, body) == [error |-> error, result |-> body]

getEpicDataPath(repoId, epicId) ==
    <<"r","e","p","o","s","i","t","o","r","i","e","s","/">> \o NumberToString(repoId) \o <<"/","e","p","i","c","s","/">> \o NumberToString(epicId)
getEpicDataCallback(error, body) == [error |-> error, result |-> body]

addRemoveIssuesToEpicPath(repoId, epicId) ==
    <<"r","e","p","o","s","i","t","o","r","i","e","s","/">> \o NumberToString(repoId) \o <<"/","e","p","i","c","s","/">> \o NumberToString(epicId)
    \o <<"/","u","p","d","a","t","e","_","i","s","s","u","e","s">>
addRemoveIssuesToEpicCallback(error, body) == [error |-> error, result |-> body]

convertIssueToEpicPath(repoId, issueId) ==
    <<"r","e","p","o","s","i","t","o","r","i","e","s","/">> \o NumberToString(repoId) \o <<"/","i","s","s","u","e","s","/">> \o NumberToString(issueId)
    \o <<"/","c","o","n","v","e","r","t","_","t","o","_","e","p","i","c">>
convertIssueToEpicCallback(error, body) == [error |-> error, result |-> body]

setEstimateForIssuePath(repoId, issueId) ==
    <<"r","e","p","o","s","i","t","o","r","i","e","s","/">> \o NumberToString(repoId) \o <<"/","i","s","s","u","e","s","/">> \o NumberToString(issueId)
    \o <<"/","e","s","t","i","m","a","t","e">>
setEstimateForIssueCallback(error, body) == [error |-> error, result |-> body]

\* The function the method of a call gave to its helper.
EndpointCallback(method, error, body) ==
    CASE method = "getBoard" -> getBoardCallback(error, body)
      [] method = "getIssue" -> getIssueCallback(error, body)
      [] method = "getIssueEvents" -> getIssueEventsCallback(error, body)
      [] method = "getEpics" -> getEpicsCallback(error, body)
      [] method = "getEpicData" -> getEpicDataCallback(error, body)
      [] method = "addRemoveIssuesToEpic" -> addRemoveIssuesToEpicCallback(error, body)
      [] method = "convertIssueToEpic" -> convertIssueToEpicCallback(error, body)
      [] method = "setEstimateForIssue" -> setEstimateForIssueCallback(error, body)

----------------------------------------------------------------------------
\* State and actions

Clients == {"c1", "c2"}

Init ==
    /\ credentials = [c \in Clients |-> NoInstance]
    /\ tokenArg = [c \in Clients |-> <<>>]
    /\ calls = <<>>
    /\ requests = <<>>

\* new ZenHub(token)
Construct(c, token) ==
    /\ credentials[c] = NoInstance
    /\ credentials' = [credentials EXCEPT ![c] = ZenHub(token)]
    /\ tokenArg' = [tokenArg EXCEPT ![c] = token]
    /\ UNCHANGED <<calls, requests>>

\* A call of a public method of client c: the call is recorded and the
\* requests its helper issues are handed to the transport.
Call(c, method, ids, payload, issued) ==
    /\ credentials[c] # NoInstance
    /\ calls' = Append(calls, [client |-> c, method |-> method, ids |-> ids,
                               payload |-> payload, invocations |-> <<>>])
    /\ requests' = requests \o issued
    /\ UNCHANGED <<credentials, tokenArg>>

getBoard(c, repoId) ==
    Call(c, "getBoard", <<repoId>>, Undefined,
         _get(credentials[c], getBoardPath(repoId), <<>>, Len(calls) + 1))

getIssue(c, repoId, issueNumber) ==
    Call(c, "getIssue", <<repoId, issueNumber>>, Undefined,
         _get(credentials[c], getIssuePath(repoId, issueNumber), <<>>, Len(calls) + 1))

getIssueEvents(c, repoId, issueNumber) ==
    Call(c, "getIssueEvents", <<repoId, issueNumber>>, Undefined,
         _get(credentials[c], getIssueEventsPath(repoId, issueNumber), <<>>, Len(calls) + 1))

getEpics(c, repoId) ==
    Call(c, "getEpics", <<repoId>>, Undefined,
         _get(credentials[c], getEpicsPath(repoId), <<>>, Len(calls) + 1))

getEpicData(c, repoId, epicId) ==
    Call(c, "getEpicData", <<repoId, epicId>>, Undefined,
         _get(credentials[c], getEpicDataPath(repoId, epicId), <<>>, Len(calls) + 1))

addRemoveIssuesToEpic(c, repoId, epicId, payload) ==
    Call(c, "addRemoveIssuesToEpic", <<repoId, epicId>>, payload,
         _post(credentials[c], addRemoveIssuesToEpicPath(repoId, epicId), <<>>, payload,
               Len(calls) + 1))

convertIssueToEpic(c, repoId, issueId, payload) ==
    Call(c, "convertIssueToEpic", <<repoId, issueId>>, payload,
         _post(credentials[c], convertIssueToEpicPath(repoId, issueId), <<>>, payload,
               Len(calls) + 1))

setEstimateForIssue(c, repoId, issueId, payload) ==
    Call(c, "setEstimateForIssue", <<repoId, issueId>>, payload,
         _put(credentials[c], setEstimateForIssuePath(repoId, issueId), <<>>, payload,
              Len(calls) + 1))

\* The transport completes request r with (error, response, body): the
\* helper's completion function runs, and what it passes on goes through the
\* endpoint method's function to the caller's callback.  An exception thrown
\* by the completion function leaves the callback uncalled.
Complete(r, error, body, out) ==
    LET k == CallbackOf(requests, r)
        passed == [i \in 1..Len(out.args) |->
                      EndpointCallback(calls[k].method, out.args[i].error, out.args[i].result)]
    IN  /\ requests' = [requests EXCEPT ![r].state = IF out.threw THEN "threw" ELSE "complete",
                                        ![r].error = error,
                                        ![r].response = body]
        /\ calls' = [calls EXCEPT ![k].invocations = @ \o passed]
        /\ UNCHANGED <<credentials, tokenArg>>

_getComplete(r, error, body) ==
    /\ requests[r].state = "inflight"
    /\ requests[r].verb = "GET"
    /\ Complete(r, error, body, _getCallback(error, body))

_postComplete(r, error, body) ==
    /\ requests[r].state = "inflight"
    /\ requests[r].verb = "POST"
    /\ Complete(r, error, body, _postCallback(error, body))

_putComplete(r, error, body) ==
    /\ requests[r].state = "inflight"
    /\ requests[r].verb = "PUT"
    /\ Complete(r, error, body, _putCallback(error, body))

----------------------------------------------------------------------------
\* Inputs

Tokens == { <<"a","b","c","1","2","3">>, <<"k","&","a","=","1"," ","+">>, <<"t",":","@",",","$",";","[","x","]">> }

Payloads == { Obj([estimate |-> Str("3")]) }

Pipelines == Arr(<<"p1">>)

\* What the transport reports as the error: null, or the error it raised.
Errors == { Null, TransportError("ECONNRESET") }

\* What the transport reports as the body: undefined for an empty response,
\* null, or a decoded JSON object.
Bodies ==
    { Undefined, Null, EmptyObject,
      Obj([status |-> Str("OK"), pipelines |-> Pipelines]),
      Obj([pipelines |-> Pipelines]),
      Obj([status |-> Str("Error"), description |-> Str("not found")]),
      Obj([status |-> Str("Error"), error_message |-> Str("failed")]),
      Obj([status |-> Str("Error"), description |-> Str("not found"),
           error_message |-> Str("failed"), pipelines |-> Pipelines]),
      Obj([status |-> Str("Error")]),
      Obj([status |-> Str("Error"), description |-> Str(""), error_message |-> Str("failed")]),
      Obj([status |-> Str(""), description |-> Str("not found")]),
      Obj([status |-> Str("Error"), description |-> Arr(<<"p1", "p2">>)]),
      Obj([status |-> Str("Error"), description |-> Obj([toString |-> Str("x")])]) }

\* Spec: one client, up to MaxCalls calls in flight together, their responses
\* arriving in any order.
SpecBodies ==
    { Undefined,
      Obj([status |-> Str("OK"), pipelines |-> Pipelines]),
      Obj([status |-> Str("Error"), description |-> Str("not found")]) }

Next ==
    \/ \E t \in Tokens : Construct("c1", t)
    \/ Len(calls) < MaxCalls /\ getBoard("c1", 42)
    \/ Len(calls) < MaxCalls /\ getIssue("c1", 42, 7)
    \/ Len(calls) < MaxCalls /\ getIssueEvents("c1", 42, 7)
    \/ Len(calls) < MaxCalls /\ getEpics("c1", 42)
    \/ Len(calls) < MaxCalls /\ getEpicData("c1", 42, 7)
    \/ Len(calls) < MaxCalls /\ \E p \in Payloads : addRemoveIssuesToEpic("c1", 42, 7, p)
    \/ Len(calls) < MaxCalls /\ \E p \in Payloads : convertIssueToEpic("c1", 42, 7, p)
    \/ Len(calls) < MaxCalls /\ \E p \in Payloads : setEstimateForIssue("c1", 42, 7, p)
    \/ \E r \in 1..Len(requests), e \in Errors, b \in SpecBodies : _getComplete(r, e, b)
    \/ \E r \in 1..Len(requests), e \in Errors, b \in SpecBodies : _postComplete(r, e, b)
    \/ \E r \in 1..Len(requests), e \in Errors, b \in SpecBodies : _putComplete(r, e, b)

Spec == Init /\ [][Next]_vars

\* SpecSingle: one call of one of two clients, over all identifiers and all
\* responses.
RepoIds == {-1, 1, 42}
IssueIds == {7, 10}

\* No public method has been called yet.
NoCallMade == calls = <<>>

NextSingle ==
    \/ \E c \in Clients, t \in Tokens : Construct(c, t)
    \/ NoCallMade /\ \E c \in Clients, repoId \in RepoIds : getBoard(c, repoId)
    \/ NoCallMade /\ \E c \in Clients, repoId \in RepoIds, i \in IssueIds : getIssue(c, repoId, i)
    \/ NoCallMade /\ \E c \in Clients, repoId \in RepoIds, i \in IssueIds : getIssueEvents(c, repoId, i)
    \/ NoCallMade /\ \E c \in Clients, repoId \in RepoIds : getEpics(c, repoId)
    \/ NoCallMade /\ \E c \in Clients, repoId \in RepoIds, i \in IssueIds : getEpicData(c, repoId, i)
    \/ NoCallMade /\ \E c \in Clients, repoId \in RepoIds, i \in IssueIds, p \in Payloads :
            addRemoveIssuesToEpic(c, repoId, i, p)
    \/ NoCallMade /\ \E c \in Clients, repoId \in RepoIds, i \in IssueIds, p \in Payloads :
            convertIssueToEpic(c, repoId, i, p)
    \/ NoCallMade /\ \E c \in Clients, repoId \in RepoIds, i \in IssueIds, p \in Payloads :
            setEstimateForIssue(c, repoId, i, p)
    \/ \E r \in 1..Len(requests), e \in Errors, b \in Bodies : _getComplete(r, e, b)
    \/ \E r \in 1..Len(requests), e \in Errors, b \in Bodies : _postComplete(r, e, b)
    \/ \E r \in 1..Len(requests), e \in Errors, b \in Bodies : _putComplete(r, e, b)

SpecSingle == Init /\ [][NextSingle]_vars

----------------------------------------------------------------------------
\* Properties

Finished(r) == requests[r].state # "inflight"
Invocations(r) == calls[requests[r].call].invocations
MethodOf(r) == calls[requests[r].call].method
Absent(v) == v = Undefined \/ v = Null
GetMethods == {"getBoard", "getIssue", "getIssueEvents", "getEpics", "getEpicData"}

\* C1: once the transport has reported the outcome of a call's request,
\* whatever the outcome, the caller's callback has been invoked exactly once.
C1_CallbackExactlyOnce ==
    \A r \in 1..Len(requests) : Finished(r) => Len(Invocations(r)) = 1

\* C2, as stated: a GET call whose transport reports no error and a body whose
\* status is a string other than "OK" gets an error whose message is the
\* body's description if that field is present, else its error_message.
C2_StatusErrorAsStated ==
    \A r \in 1..Len(requests) :
        LET body == requests[r].response
            st == Get(body, "status")
            d == Get(body, "description")
            m == Get(body, "error_message")
        IN  (/\ Finished(r) /\ MethodOf(r) \in GetMethods
             /\ requests[r].error = Null /\ body.type = "object"
             /\ st.type = "string" /\ st.val # "OK")
            => /\ Len(Invocations(r)) = 1
               /\ Invocations(r)[1].error.type = "error"
               /\ Str(Invocations(r)[1].error.message) = (IF d # Undefined THEN d ELSE m)

\* C2, amended: when the status is a non-empty string other than "OK" and the
\* description and the error_message are each a string or absent, the error is
\* a new Error whose message is the description if that is a non-empty string,
\* else the error_message if that is a string, else empty.
C2_StatusError ==
    \A r \in 1..Len(requests) :
        LET body == requests[r].response
            st == Get(body, "status")
            d == Get(body, "description")
            m == Get(body, "error_message")
        IN  (/\ Finished(r) /\ MethodOf(r) \in GetMethods
             /\ requests[r].error = Null /\ body.type = "object"
             /\ st.type = "string" /\ st.val # "OK" /\ st.val # ""
             /\ d.type \in {"string", "undefined"}
             /\ m.type \in {"string", "undefined"})
            => /\ Len(Invocations(r)) = 1
               /\ Invocations(r)[1].error.type = "error"
               /\ Invocations(r)[1].error.origin = "new Error"
               /\ Invocations(r)[1].error.message =
                    (IF d.type = "string" /\ d.val # "" THEN d.val
                     ELSE IF m.type = "string" THEN m.val ELSE "")

\* getEpicData was answered with a failing status and an error_message but no
\* description, and its callback got an error with the error_message.
C2_Witness ==
    \E r \in 1..Len(requests) :
        /\ Finished(r) /\ MethodOf(r) = "getEpicData" /\ requests[r].error = Null
        /\ Get(requests[r].response, "status") = Str("Error")
        /\ Get(requests[r].response, "description") = Undefined
        /\ Len(Invocations(r)) = 1
        /\ Invocations(r)[1].error.type = "error"
        /\ Invocations(r)[1].error.message = "failed"

\* C3, as stated: when the transport reports an error, the callback gets that
\* same error, and as result the response body, or an empty object when the
\* body is absent.
C3_TransportErrorAsStated ==
    \A r \in 1..Len(requests) :
        (Finished(r) /\ requests[r].error.type = "error")
        => /\ Len(Invocations(r)) = 1
           /\ Invocations(r)[1].error = requests[r].error
           /\ Invocations(r)[1].result =
                (IF Absent(requests[r].response) THEN EmptyObject ELSE requests[r].response)

\* C3, amended: when the transport reports an error, the callback gets that
\* same error, and as result the response body, or an empty object when the
\* body is absent; getBoard passes the pipelines field of that value instead.
C3_TransportError ==
    \A r \in 1..Len(requests) :
        LET given == IF Absent(requests[r].response) THEN EmptyObject
                     ELSE requests[r].response
        IN  (Finished(r) /\ requests[r].error.type = "error")
            => /\ Len(Invocations(r)) = 1
               /\ Invocations(r)[1].error = requests[r].error
               /\ Invocations(r)[1].error.origin = "transport"
               /\ Invocations(r)[1].result =
                    (IF MethodOf(r) = "getBoard"
                     THEN (IF "pipelines" \in DOMAIN given.fields
                           THEN given.fields.pipelines ELSE Undefined)
                     ELSE given)

\* A GET call failed in the transport while its body carried a failing
\* status, and the transport's error reached the callback.
C3_Witness ==
    \E r \in 1..Len(requests) :
        /\ Finished(r) /\ MethodOf(r) = "getIssue"
        /\ requests[r].error = TransportError("ECONNRESET")
        /\ Get(requests[r].response, "status") = Str("Error")
        /\ Len(Invocations(r)) = 1
        /\ Invocations(r)[1].error = TransportError("ECONNRESET")

\* C4: a GET call whose transport reports no error and a decoded body with no
\* status, or with status "OK", gets no error and the mapped result:
\* body.pipelines for getBoard, the whole body for the other GET methods.
C4_Success ==
    \A r \in 1..Len(requests) :
        LET body == requests[r].response
        IN  (/\ Finished(r) /\ MethodOf(r) \in GetMethods
             /\ requests[r].error = Null /\ body.type = "object"
             /\ ("status" \notin DOMAIN body.fields \/ body.fields.status = Str("OK")))
            => /\ Len(Invocations(r)) = 1
               /\ Invocations(r)[1].error = Null
               /\ Invocations(r)[1].result =
                    (IF MethodOf(r) = "getBoard"
                     THEN (IF "pipelines" \in DOMAIN body.fields
                           THEN body.fields.pipelines ELSE Undefined)
                     ELSE body)

\* getBoard was answered {status: "OK", pipelines: [...]} and passed the
\* pipelines on.
C4_Witness ==
    \E r \in 1..Len(requests) :
        /\ Finished(r) /\ MethodOf(r) = "getBoard" /\ requests[r].error = Null
        /\ requests[r].response = Obj([status |-> Str("OK"), pipelines |-> Pipelines])
        /\ Invocations(r) = << [error |-> Null, result |-> Pipelines] >>

\* C5: a POST or PUT call's callback gets exactly the error the transport
\* reported, so a non-null error only if the transport reported one; a body
\* whose status is not "OK" is passed on unchanged and makes no error.
C5_NoStatusCheck ==
    \A r \in 1..Len(requests) :
        (Finished(r) /\ MethodOf(r) \notin GetMethods)
        => /\ Len(Invocations(r)) = 1
           /\ Invocations(r)[1].error = requests[r].error
           /\ (requests[r].error = Null => Invocations(r)[1].error.type # "error")
           /\ (requests[r].response.type = "object"
                 => Invocations(r)[1].result = requests[r].response)

\* setEstimateForIssue was answered {status: "Error"} without a transport
\* error, and passed on (null, {status: "Error"}).
C5_Witness ==
    \E r \in 1..Len(requests) :
        /\ Finished(r) /\ MethodOf(r) = "setEstimateForIssue"
        /\ requests[r].verb = "PUT"
        /\ requests[r].response = Obj([status |-> Str("Error")])
        /\ Invocations(r) = << [error |-> Null, result |-> Obj([status |-> Str("Error")])] >>

----------------------------------------------------------------------------
\* Reading a URL back, as the server that receives it does

IndexOf(s, ch) ==
    IF \E i \in 1..Len(s) : s[i] = ch
    THEN CHOOSE i \in 1..Len(s) : s[i] = ch /\ \A j \in 1..(i - 1) : s[j] # ch
    ELSE 0

\* The part of s before the first ch, and the part after it
Before(s, ch) == IF IndexOf(s, ch) = 0 THEN s ELSE SubSeq(s, 1, IndexOf(s, ch) - 1)
After(s, ch) == IF IndexOf(s, ch) = 0 THEN <<>> ELSE SubSeq(s, IndexOf(s, ch) + 1, Len(s))

RECURSIVE Split(_, _)
Split(s, ch) ==
    IF IndexOf(s, ch) = 0 THEN <<s>> ELSE <<Before(s, ch)>> \o Split(After(s, ch), ch)

PercentDecode(a, b) ==
    CASE <<a, b>> = <<"2","6">> -> "&"
      [] <<a, b>> = <<"2","2">> -> "\""
      [] <<a, b>> = <<"2","4">> -> "$"
      [] <<a, b>> = <<"2","C">> -> ","
      [] <<a, b>> = <<"3","A">> -> ":"
      [] <<a, b>> = <<"3","B">> -> ";"
      [] <<a, b>> = <<"3","C">> -> "<"
      [] <<a, b>> = <<"3","E">> -> ">"
      [] <<a, b>> = <<"4","0">> -> "@"
      [] <<a, b>> = <<"5","B">> -> "["
      [] <<a, b>> = <<"5","C">> -> "\\"
      [] <<a, b>> = <<"5","D">> -> "]"
      [] <<a, b>> = <<"5","E">> -> "^"
      [] <<a, b>> = <<"7","B">> -> "{"
      [] <<a, b>> = <<"7","C">> -> "|"
      [] <<a, b>> = <<"7","D">> -> "}"
      [] <<a, b>> = <<"3","D">> -> "="
      [] <<a, b>> = <<"2","5">> -> "%"
      [] <<a, b>> = <<"2","B">> -> "+"
      [] <<a, b>> = <<"2","F">> -> "/"
      [] <<a, b>> = <<"3","F">> -> "?"
      [] <<a, b>> = <<"2","3">> -> "#"
      [] <<a, b>> = <<"2","0">> -> " "
      [] OTHER -> "?"

RECURSIVE Unescape(_)
Unescape(s) ==
    IF s = <<>> THEN <<>>
    ELSE IF Head(s) = "%" /\ Len(s) >= 3
         THEN <<PercentDecode(s[2], s[3])>> \o Unescape(SubSeq(s, 4, Len(s)))
    ELSE IF Head(s) = "+" THEN <<" ">> \o Unescape(Tail(s))
    ELSE <<Head(s)>> \o Unescape(Tail(s))

\* The parameters of the query string of url
Params(url) ==
    LET pieces == Split(After(url, "?"), "&")
    IN  [i \in 1..Len(pieces) |->
            [key |-> Unescape(Before(pieces[i], "=")),
             value |-> Unescape(After(pieces[i], "="))]]

\* The path of url: what lies between the base address and the query string
HasBase(url) ==
    /\ Len(url) > Len(API_URL)
    /\ SubSeq(url, 1, Len(API_URL) + 1) = <<"h","t","t","p","s",":","/","/","a","p","i",".","z","e","n","h","u","b",".","i","o","/","p","1","/">>
PathOf(url) == SubSeq(Before(url, "?"), Len(API_URL) + 2, Len(Before(url, "?")))

\* C6: every request carries in its query string one access_token parameter,
\* whose value is the token the client that made the call was constructed with.
C6_AccessToken ==
    \A r \in 1..Len(requests) :
        LET ps == Params(requests[r].url)
            c == calls[requests[r].call].client
        IN  /\ IndexOf(requests[r].url, "?") > 0
            /\ Cardinality({i \in 1..Len(ps) : ps[i].key = <<"a","c","c","e","s","s","_","t","o","k","e","n">>}) = 1
            /\ \A i \in 1..Len(ps) :
                  ps[i].key = <<"a","c","c","e","s","s","_","t","o","k","e","n">> => ps[i].value = tokenArg[c]

\* Two clients hold different tokens, and a request of the second, whose token
\* has characters that must be escaped, carries the second one's token.
C6_Witness ==
    /\ tokenArg["c1"] = <<"a","b","c","1","2","3">>
    /\ tokenArg["c2"] = <<"k","&","a","=","1"," ","+">>
    /\ \E r \in 1..Len(requests) :
          /\ calls[requests[r].call].client = "c2"
          /\ requests[r].verb = "PUT"
          /\ Params(requests[r].url) = << [key |-> <<"a","c","c","e","s","s","_","t","o","k","e","n">>, value |-> <<"k","&","a","=","1"," ","+">>] >>

\* The endpoint table
IdText(n) ==
    CASE n = -1 -> <<"-","1">> [] n = 1 -> <<"1">> [] n = 7 -> <<"7">> [] n = 10 -> <<"1","0">> [] n = 42 -> <<"4","2">>

TableVerb(method) ==
    CASE method \in GetMethods -> "GET"
      [] method \in {"addRemoveIssuesToEpic", "convertIssueToEpic"} -> "POST"
      [] method = "setEstimateForIssue" -> "PUT"

TablePath(method, ids) ==
    CASE method = "getBoard" -> <<"r","e","p","o","s","i","t","o","r","i","e","s","/">> \o IdText(ids[1]) \o <<"/","b","o","a","r","d">>
      [] method = "getIssue" -> <<"r","e","p","o","s","i","t","o","r","i","e","s","/">> \o IdText(ids[1]) \o <<"/","i","s","s","u","e","s","/">> \o IdText(ids[2])
      [] method = "getIssueEvents" ->
            <<"r","e","p","o","s","i","t","o","r","i","e","s","/">> \o IdText(ids[1]) \o <<"/","i","s","s","u","e","s","/">> \o IdText(ids[2]) \o <<"/","e","v","e","n","t","s">>
      [] method = "getEpics" -> <<"r","e","p","o","s","i","t","o","r","i","e","s","/">> \o IdText(ids[1]) \o <<"/","e","p","i","c","s">>
      [] method = "getEpicData" -> <<"r","e","p","o","s","i","t","o","r","i","e","s","/">> \o IdText(ids[1]) \o <<"/","e","p","i","c","s","/">> \o IdText(ids[2])
      [] method = "addRemoveIssuesToEpic" ->
            <<"r","e","p","o","s","i","t","o","r","i","e","s","/">> \o IdText(ids[1]) \o <<"/","e","p","i","c","s","/">> \o IdText(ids[2]) \o <<"/","u","p","d","a","t","e","_","i","s","s","u","e","s">>
      [] method = "convertIssueToEpic" ->
            <<"r","e","p","o","s","i","t","o","r","i","e","s","/">> \o IdText(ids[1]) \o <<"/","i","s","s","u","e","s","/">> \o IdText(ids[2]) \o <<"/","c","o","n","v","e","r","t","_","t","o","_","e","p","i","c">>
      [] method = "setEstimateForIssue" ->
            <<"r","e","p","o","s","i","t","o","r","i","e","s","/">> \o IdText(ids[1]) \o <<"/","i","s","s","u","e","s","/">> \o IdText(ids[2]) \o <<"/","e","s","t","i","m","a","t","e">>

Methods == GetMethods \cup {"addRemoveIssuesToEpic", "convertIssueToEpic", "setEstimateForIssue"}

\* C7: every request has the verb and the path the endpoint table gives for
\* its method and identifiers, and no other method's entry for the same
\* identifiers is that (verb, path).
C7_Endpoint ==
    \A r \in 1..Len(requests) :
        LET call == calls[requests[r].call]
            path == PathOf(requests[r].url)
        IN  /\ HasBase(requests[r].url)
            /\ requests[r].verb = TableVerb(call.method)
            /\ path = TablePath(call.method, call.ids)
            /\ \A m \in Methods \ {call.method}, i \in IssueIds :
                  LET ids == <<call.ids[1], IF Len(call.ids) = 2 THEN call.ids[2] ELSE i>>
                  IN  <<requests[r].verb, path>> # <<TableVerb(m), TablePath(m, ids)>>

\* getIssueEvents(42, 10) asked for GET repositories/42/issues/10/events.
C7_Witness ==
    \E r \in 1..Len(requests) :
        /\ MethodOf(r) = "getIssueEvents"
        /\ calls[requests[r].call].ids = <<42, 10>>
        /\ requests[r].verb = "GET"
        /\ PathOf(requests[r].url) = <<"r","e","p","o","s","i","t","o","r","i","e","s","/","4","2","/","i","s","s","u","e","s","/","1","0","/","e","v","e","n","t","s">>

\* C8: every call has issued exactly one request, whatever its outcome, and
\* nothing else has issued any: constructing a client issues none, and a
\* request that ended in an error is not issued again.
C8_OneRequestPerCall ==
    /\ Len(requests) = Len(calls)
    /\ \A k \in 1..Len(calls) :
          Cardinality({r \in 1..Len(requests) : requests[r].call = k}) = 1

\* A call ended in a transport error, another in an application-level error,
\* and there are as many requests as calls.
C8_Witness ==
    /\ Len(calls) = 2
    /\ Len(requests) = 2
    /\ requests[1].state = "complete" /\ requests[1].error.type = "error"
    /\ requests[2].state = "complete" /\ requests[2].error = Null
    /\ Len(calls[2].invocations) = 1
    /\ calls[2].invocations[1].error.type = "error"

\* What a call's callback gets from the response to its own request
OwnOutcome(r) ==
    LET out == CASE requests[r].verb = "GET" ->
                       _getCallback(requests[r].error, requests[r].response)
                 [] requests[r].verb = "POST" ->
                       _postCallback(requests[r].error, requests[r].response)
                 [] requests[r].verb = "PUT" ->
                       _putCallback(requests[r].error, requests[r].response)
    IN  [i \in 1..Len(out.args) |->
            EndpointCallback(MethodOf(r), out.args[i].error, out.args[i].result)]

\* C9: with several calls in flight, what each call's callback has received is
\* what the response to its own request gives, and nothing while that
\* response has not arrived, whichever other responses have.
C9_OwnResponseOnly ==
    \A r \in 1..Len(requests) :
        Invocations(r) = (IF Finished(r) THEN OwnOutcome(r) ELSE <<>>)

\* The response to the second call arrived while the first was in flight, then
\* a different response to the first: each callback got its own.
C9_Witness ==
    /\ Len(calls) = 2
    /\ calls[1].method = "getIssue" /\ calls[2].method = "getIssue"
    /\ requests[1].state = "inflight"
    /\ requests[2].state = "complete"
    /\ requests[2].error = Null
    /\ calls[1].invocations = <<>>
    /\ Len(calls[2].invocations) = 1
    /\ calls[2].invocations[1].result = requests[2].response

\* C10: the access_token a client holds is the token its constructor was
\* given, after any sequence of calls and outcomes.
C10_CredentialKept ==
    \A c \in Clients :
        credentials[c] # NoInstance
        => credentials[c] = << [key |-> <<"a","c","c","e","s","s","_","t","o","k","e","n">>, value |-> tokenArg[c]] >>

\* Calls of the client have been made and answered, with and without errors.
C10_Witness ==
    /\ credentials["c1"] # NoInstance
    /\ Len(calls) = 2
    /\ requests[1].state = "complete" /\ requests[1].error.type = "error"
    /\ requests[2].state = "threw"

====
